---- MODULE Spec2Model ----
(***************************************************************************)
(* Retirement portfolio simulator: app.py (Dash callback update_graph and  *)
(* generate_simulation) and plan.py (the stand-alone script with market    *)
(* crashes), with calculate_trailing_return of both files.                 *)
(*                                                                         *)
(* Numbers.  The programs compute in floating point; the model computes    *)
(* the same expressions in exact arithmetic:                               *)
(*   - a rational is a pair <<n, d>> in lowest terms with d > 0;           *)
(*   - a balance is a fixed-point expansion <<c0, d1, ..., dJ>> in radix   *)
(*     240, worth c0 + d1/240 + ... + dJ/240^J with every dj in 0..239 and *)
(*     no trailing zero, so that 1/240 = flat_interest_rate/12 is one unit *)
(*     of the first digit and a balance stays exact over any number of     *)
(*     months;                                                             *)
(*   - x ** (12/window) is kept as the pair (base, exponent), or is NaN    *)
(*     when numpy's power is NaN (negative base, fractional exponent).     *)
(***************************************************************************)
EXTENDS Integers, Sequences, FiniteSets, TLC

VARIABLES
    prog,                 \* "app" | "plan" | "trailing": which program runs
    pc,                   \* position in the program
    inputs,               \* app.py: the callback's n_clicks and State values
    params,               \* app.py: params dict; plan.py: the parameter block
    seed,                 \* the stream np.random's global generator was seeded to
    rng,                  \* np.random's global state: draws taken so far
    sim,                  \* runs completed in the batch loop
    df,                   \* the run's DataFrame, one column per field
    monthly_returns,      \* the run's return series
    crash_months,         \* plan.py: the run's crash flags
    current_portfolio,    \* the running balance
    i,                    \* index of the month loop in progress (0-based)
    branch,               \* per month: which line wrote Portfolio_Value
    all_simulations,      \* batch: one df per completed run
    all_trailing_returns, \* batch: one trailing-return series per completed run
    all_monthly_returns,  \* history: the return series each completed run used
    base_returns,         \* history: plan.py's normal draws before crash injection
    error,                \* the exception that ended the callback, or "none"
    returns,              \* calculate_trailing_return: argument
    window,               \* calculate_trailing_return: argument
    trailing_app,         \* calculate_trailing_return of app.py: result
    trailing_plan         \* calculate_trailing_return of plan.py: result

vars == <<prog, pc, inputs, params, seed, rng, sim, df, monthly_returns,
          crash_months, current_portfolio, i, branch, all_simulations,
          all_trailing_returns, all_monthly_returns, base_returns, error,
          returns, window, trailing_app, trailing_plan>>

----------------------------------------------------------------------------
(* Bounds of the model. *)

\* Longest horizon, in years, between starting_age and retirement_age.
MaxYears == 1
\* Largest num_simulations.
MaxSims == 2
\* Longest run of consecutive non-median draws in the generator's stream.
MaxBurst == 2
\* Longest series handed to calculate_trailing_return on its own.
MaxLen == 6
\* Largest window handed to calculate_trailing_return on its own.
MaxWindow == 5

----------------------------------------------------------------------------
(* Exact rationals. *)

\* The sequence f as an explicit tuple (TLC then keeps it evaluated).
Tup(f) == SubSeq(f, 1, Len(f))

Abs(x) == IF x < 0 THEN -x ELSE x

Max(a, b) == IF a >= b THEN a ELSE b

Min(a, b) == IF a <= b THEN a ELSE b

RECURSIVE GCD(_, _)
GCD(a, b) == IF b = 0 THEN a ELSE GCD(b, a % b)

\* n/d in lowest terms, d > 0.
R(n, d) ==
    LET g == GCD(Abs(n), Abs(d))
        s == IF d < 0 THEN -1 ELSE 1
    IN  <<(s * n) \div g, (s * d) \div g>>

RInt(n) == <<n, 1>>

RAdd(a, b) == R(a[1] * b[2] + b[1] * a[2], a[2] * b[2])

RSub(a, b) == R(a[1] * b[2] - b[1] * a[2], a[2] * b[2])

RMul(a, b) == R(a[1] * b[1], a[2] * b[2])

RDiv(a, b) == R(a[1] * b[2], a[2] * b[1])

RLess(a, b) == a[1] * b[2] < b[1] * a[2]

RECURSIVE RPow(_, _)
RPow(a, k) == IF k = 0 THEN RInt(1) ELSE RMul(a, RPow(a, k - 1))

\* np.prod(1 + xs[lo..hi]), 1-based and inclusive; the empty product is 1.
RECURSIVE Prod1p(_, _, _)
Prod1p(xs, lo, hi) ==
    IF lo > hi THEN RInt(1)
    ELSE RMul(Prod1p(xs, lo, hi - 1), RAdd(RInt(1), xs[hi]))

----------------------------------------------------------------------------
(* Exact balances: fixed point in radix 240. *)

Radix == 12 * 20

RECURSIVE FxTrim(_)
FxTrim(s) ==
    IF Len(s) > 1 /\ s[Len(s)] = 0 THEN FxTrim(SubSeq(s, 1, Len(s) - 1)) ELSE s

RECURSIVE FxCarry(_, _)
FxCarry(s, j) ==
    IF j <= 1 THEN s
    ELSE FxCarry([s EXCEPT ![j] = s[j] % Radix,
                           ![j - 1] = s[j - 1] + (s[j] \div Radix)], j - 1)

FxNorm(s) == Tup(FxTrim(FxCarry(Tup(s), Len(s))))

FxInt(n) == <<n>>

FxAdd(a, b) ==
    FxNorm([k \in 1..Max(Len(a), Len(b)) |->
               (IF k <= Len(a) THEN a[k] ELSE 0)
               + (IF k <= Len(b) THEN b[k] ELSE 0)])

FxScale(a, k) == FxNorm([j \in 1..Len(a) |-> a[j] * k])

RECURSIVE FxShift(_, _)
FxShift(a, m) == IF m = 0 THEN a ELSE FxShift(FxNorm(<<0>> \o a), m - 1)

RECURSIVE IPow(_, _)
IPow(b, k) == IF k = 0 THEN 1 ELSE b * IPow(b, k - 1)

\* Least m with d | 240^m (the denominators in use divide a power of 240).
Shifts(d) ==
    IF d = 1 THEN 0 ELSE IF Radix % d = 0 THEN 1 ELSE
    CHOOSE m \in 0..3 :
        /\ IPow(Radix, m) % d = 0
        /\ \A k \in 0..(m - 1) : IPow(Radix, k) % d # 0

\* balance * q for a rational q.
FxMulRat(a, q) ==
    LET m == Shifts(q[2])
    IN  FxShift(FxScale(a, q[1] * (IPow(Radix, m) \div q[2])), m)

FxOfRat(q) == FxMulRat(FxInt(1), q)

FxSub(a, b) == FxAdd(a, FxScale(b, -1))

\* The fraction d1/240 + ... lies in [0, 1): the sign is that of c0.
FxIsNeg(a) == a[1] < 0

FxGe0(a) == a[1] >= 0

FxLess(a, b) == FxIsNeg(FxSub(a, b))

----------------------------------------------------------------------------
(* np.random: one process-wide generator.  Its stream is fixed when the    *)
(* process seeds it (from OS entropy, so any stream may occur); the state  *)
(* is the number of draws taken.  A stream element is a standard-normal    *)
(* draw in whole standard deviations; the streams explored are the median  *)
(* (0) everywhere except for one burst of equal draws.                     *)

ShockValues == {-3, 2}

Seeds(draws) ==
    {[pos |-> 0, len |-> 0, val |-> 0]}
    \cup {[pos |-> p, len |-> l, val |-> v] :
            p \in 0..(draws - 1), l \in 1..MaxBurst, v \in ShockValues}

\* The k-th draw (0-based) of the stream.
Stream(k) == IF seed.pos <= k /\ k < seed.pos + seed.len THEN seed.val ELSE 0

\* A normal draw of unit scale whatever the scale asked for.
Normal_unscaled(loc, scale, z) == RAdd(loc, RInt(z))

\* np.random.normal(loc, scale): loc + scale * (standard-normal draw z).
Normal(loc, scale, z) == RAdd(loc, RMul(scale, RInt(z)))

\* np.random.random(): the uniform draw in [0, 1) at the same quantile as z.
Uniform(z) == IF z < 0 THEN R(0, 1) ELSE IF z = 0 THEN R(1, 2) ELSE R(3, 4)

----------------------------------------------------------------------------
(* Parameters. *)

\* A volatility x + y*sqrt(3) is the pair <<x, y>> of rationals.
Q3(x, y) == <<x, y>>

\* v / 100 (update_graph's percentage conversion).
Q3Div100(v) == Q3(RDiv(v[1], RInt(100)), RDiv(v[2], RInt(100)))

\* v / np.sqrt(12): (x + y*sqrt(3)) / (2*sqrt(3)) = y/2 + (x/6)*sqrt(3).
monthly_volatility_of(annual_volatility) ==
    Q3(RDiv(annual_volatility[2], RInt(2)), RDiv(annual_volatility[1], RInt(6)))

\* Monthly growth factors g whose 12th power the model's annual rates reach.
GrowthCandidates == {R(k, 2) : k \in 0..4}

\* (1 + annual_return_rate) ** (1/12) - 1
monthly_expected_return_of(annual_return_rate) ==
    LET g == CHOOSE c \in GrowthCandidates :
                 RPow(c, 12) = RAdd(RInt(1), annual_return_rate)
    IN  RSub(g, RInt(1))

\* One month short.
NumMonths_short(p) == (p.retirement_age - p.starting_age) * 12 - 1

\* The distance between the ages, whichever is the larger.
NumMonths_abs(p) == Abs(p.retirement_age - p.starting_age) * 12

\* (retirement_age - starting_age) * 12
NumMonths(p) == (p.retirement_age - p.starting_age) * 12

IsLeap(y) == (y % 4 = 0 /\ y % 100 # 0) \/ y % 400 = 0

\* Days of a common year up to the end of each month.
CumDays == <<31, 59, 90, 120, 151, 181, 212, 243, 273, 304, 334, 365>>

\* pd.date_range(start='2025-01-01', periods=n, freq='ME')[k] - [0], in days:
\* the month ends from 2025-01-31 on.
DaysFromFirst(k) ==
    LET y == 2025 + (k \div 12)
        m == (k % 12) + 1
    IN  365 * (y - 2025) + Cardinality({yy \in 2025..(y - 1) : IsLeap(yy)})
        + CumDays[m] + (IF IsLeap(y) /\ m >= 2 THEN 1 ELSE 0) - 31

\* starting_age + days / 365.25, for row k (0-based).
Age(p, k) == R(p.starting_age * 1461 + DaysFromFirst(k) * 4, 1461)

\* (1 + inflation_rate) ** (Age - starting_age): exact for the bases 0 and 1,
\* the only ones the model's inflation rates give (0% and -100%); the
\* exponent days/365.25 is zero in the first row only.
InflationFactor(p, k) ==
    IF DaysFromFirst(k) = 0 THEN RInt(1)
    ELSE CHOOSE f \in {RInt(0), RInt(1)} : f = RAdd(RInt(1), p.inflation_rate)

\* Row k (0-based) of Monthly_Income, Monthly_Expenses, Monthly_Investment.
Income(p, k) == RMul(RInt(p.monthly_income), InflationFactor(p, k))

Expenses(p, k) == RMul(RInt(p.monthly_expenses), InflationFactor(p, k))

Investment(p, k) ==
    LET f == InflationFactor(p, k)
    IN  RSub(RMul(RInt(p.monthly_income), f), RMul(RInt(p.monthly_expenses), f))

\* The columns Age .. Monthly_Investment and Portfolio_Value = 0.0, n rows.
NewFrame(p, n) ==
    [Age |-> Tup([k \in 1..n |-> Age(p, k - 1)]),
     Monthly_Income |-> Tup([k \in 1..n |-> Income(p, k - 1)]),
     Monthly_Expenses |-> Tup([k \in 1..n |-> Expenses(p, k - 1)]),
     Monthly_Investment |-> Tup([k \in 1..n |-> Investment(p, k - 1)]),
     Portfolio_Value |-> Tup([k \in 1..n |-> FxInt(0)])]

\* len(df)
LenDf == Len(df.Portfolio_Value)

----------------------------------------------------------------------------
(* calculate_trailing_return *)

NaN == [nan |-> TRUE]

\* base ** (12 / window) - 1 in numpy floats: NaN for a negative base under
\* a fractional exponent, otherwise the value, kept as (base, exponent).
Annualize(base, w) ==
    IF base[1] < 0 /\ 12 % w # 0 THEN NaN
    ELSE [base |-> base, exp |-> R(12, w)]

\* The sentinel for one month more: idx <= window.
calculate_trailing_return_late(rets, w) ==
    Tup([k \in 1..Len(rets) |->
        LET idx == k - 1
        IN  IF idx <= w THEN NaN
            ELSE LET window_returns == SubSeq(rets, idx - w + 1, idx)
                     cumulative_return ==
                         RSub(Prod1p(window_returns, 1, Len(window_returns)),
                              RInt(1))
                 IN  Annualize(RAdd(RInt(1), cumulative_return), w)])

\* app.py
calculate_trailing_return(rets, w) ==
    Tup([k \in 1..Len(rets) |->
        LET idx == k - 1
        IN  IF idx < w THEN NaN
            ELSE LET window_returns == SubSeq(rets, idx - w + 1, idx)
                     cumulative_return ==
                         RSub(Prod1p(window_returns, 1, Len(window_returns)),
                              RInt(1))
                 IN  Annualize(RAdd(RInt(1), cumulative_return), w)])

\* plan.py
plan_calculate_trailing_return(rets, w) ==
    Tup([k \in 1..Len(rets) |->
        LET idx == k - 1
        IN  IF idx < w THEN NaN
            ELSE LET window_returns == SubSeq(rets, idx - w + 1, idx)
                 IN  Annualize(RAdd(RInt(1),
                                    Prod1p(window_returns, 1, Len(window_returns))),
                               w)])

\* The window generate_simulation uses (the default of app.py's function).
AppWindow == 24

\* The window plan.py passes at its call.
PlanWindow == 24

----------------------------------------------------------------------------
(* app.py: the values the callback is given. *)

StartingAges == {24}

\* (initial_investment, monthly_income, monthly_expenses)
Cashflows == {<<50000, 5000, 3500>>, <<2, 1, 3>>, <<-3, 3, 1>>}

\* Annual return, in percent: 0% and the rate whose monthly equivalent is -50%.
AnnualReturnsPct == {RInt(0), R(-102375, 1024)}

\* Annual volatility, in percent: 0, 100*sqrt(3) (50% a month) and -100*sqrt(3).
AnnualVolatilitiesPct ==
    {Q3(RInt(0), RInt(0)), Q3(RInt(0), RInt(100)), Q3(RInt(0), RInt(-100))}

InflationRatesPct == {RInt(0), RInt(-100)}

AppInputs ==
    {[n_clicks |-> c, starting_age |-> a, retirement_age |-> a - 1 + y,
      monthly_income |-> cf[2], monthly_expenses |-> cf[3],
      annual_return |-> ar, annual_volatility |-> av, inflation_rate |-> ir,
      initial_investment |-> cf[1], num_simulations |-> ns] :
        c \in {0, 1}, a \in StartingAges,
        y \in 0..(MaxYears + 1),
        cf \in Cashflows, ar \in AnnualReturnsPct, av \in AnnualVolatilitiesPct,
        ir \in InflationRatesPct, ns \in 1..MaxSims}

\* Draws a batch can take: num_simulations runs of num_months draws.
AppDraws(in) ==
    IF in.n_clicks = 0 THEN 0
    ELSE in.num_simulations * Max(0, (in.retirement_age - in.starting_age) * 12)

NoFrame ==
    [Age |-> <<>>, Monthly_Income |-> <<>>, Monthly_Expenses |-> <<>>,
     Monthly_Investment |-> <<>>, Portfolio_Value |-> <<>>]

NoParams == [num_simulations |-> 0]

\* The variables calculate_trailing_return's own specification uses.
TrailingIdle ==
    /\ returns = <<>>
    /\ window = 0
    /\ trailing_app = <<>>
    /\ trailing_plan = <<>>

RunIdle ==
    /\ rng = 0
    /\ sim = 0
    /\ df = NoFrame
    /\ monthly_returns = <<>>
    /\ crash_months = <<>>
    /\ current_portfolio = FxInt(0)
    /\ i = 0
    /\ branch = <<>>
    /\ all_simulations = <<>>
    /\ all_trailing_returns = <<>>
    /\ all_monthly_returns = <<>>
    /\ base_returns = <<>>
    /\ error = "none"

AppInit ==
    /\ prog = "app"
    /\ pc = "start"
    /\ inputs \in AppInputs
    /\ params = NoParams
    /\ seed \in Seeds(AppDraws(inputs))
    /\ RunIdle
    /\ TrailingIdle

----------------------------------------------------------------------------
(* app.py: update_graph and generate_simulation. *)

flat_interest_rate == R(5, 100)

\* A start balance left over from the run before.
StartBalance_carried(p) == current_portfolio

\* current_portfolio = params['initial_investment']
StartBalance(p) == FxInt(p.initial_investment)

\* The balance a month starts from plus that month's Monthly_Investment.
WithInvestment(balance, investment) == FxAdd(balance, FxOfRat(investment))

\* No guard: every month grows by its sampled return.
UsesSampledReturn_always(portfolio_with_investment) == TRUE

\* Lines 80-83 and 88-91: which growth a month gets.
UsesSampledReturn(portfolio_with_investment) == FxGe0(portfolio_with_investment)

\* portfolio_with_investment * (1 + monthly_returns[i])
GrowSampled(portfolio_with_investment, r) ==
    FxMulRat(portfolio_with_investment, RAdd(RInt(1), r))

\* A negative balance that bears no interest.
GrowFlat_free(portfolio_with_investment) == portfolio_with_investment

\* portfolio_with_investment * (1 + flat_interest_rate/12)
GrowFlat(portfolio_with_investment) ==
    FxMulRat(portfolio_with_investment,
             RAdd(RInt(1), RDiv(flat_interest_rate, RInt(12))))

\* update_graph up to the batch loop.
UpdateGraph ==
    /\ prog = "app"
    /\ pc = "start"
    /\ IF inputs.n_clicks = 0
       THEN /\ pc' = "done"
            /\ UNCHANGED <<params, all_simulations, all_trailing_returns>>
       ELSE /\ params' =
                [starting_age |-> inputs.starting_age,
                 retirement_age |-> inputs.retirement_age,
                 monthly_income |-> inputs.monthly_income,
                 monthly_expenses |-> inputs.monthly_expenses,
                 annual_return_rate |-> RDiv(inputs.annual_return, RInt(100)),
                 annual_volatility |-> Q3Div100(inputs.annual_volatility),
                 inflation_rate |-> RDiv(inputs.inflation_rate, RInt(100)),
                 initial_investment |-> inputs.initial_investment,
                 num_simulations |-> inputs.num_simulations]
            /\ all_simulations' = <<>>
            /\ all_trailing_returns' = <<>>
            /\ pc' = "batch"
    /\ UNCHANGED <<prog, inputs, seed, rng, sim, df, monthly_returns,
                   crash_months, current_portfolio, i, branch,
                   all_monthly_returns, base_returns, error, returns, window,
                   trailing_app, trailing_plan>>

\* The exceptions an empty month index raises: df.index[0] on an empty index
\* (IndexError), or pd.date_range itself on a negative periods (ValueError in
\* the pandas versions that check it).
EmptyIndexErrors(num_months) ==
    IF num_months < 0 THEN {"IndexError", "ValueError"} ELSE {"IndexError"}

\* generate_simulation, from its call to the start of the month loop.
GenerateSimulation ==
    /\ prog = "app"
    /\ pc = "batch"
    /\ sim < params.num_simulations
    /\ \E num_months \in {NumMonths(params)},
          monthly_volatility \in {monthly_volatility_of(params.annual_volatility)},
          monthly_expected_return \in
              {monthly_expected_return_of(params.annual_return_rate)} :
           IF num_months <= 0
           THEN /\ error' \in EmptyIndexErrors(num_months)
                /\ pc' = "error"
                /\ UNCHANGED <<rng, df, monthly_returns, current_portfolio, i,
                               branch>>
           ELSE IF monthly_volatility[1][1] < 0
           THEN \* np.random.normal: "scale < 0"
                /\ error' = "ValueError"
                /\ pc' = "error"
                /\ UNCHANGED <<rng, df, monthly_returns, current_portfolio, i,
                               branch>>
           ELSE /\ df' = NewFrame(params, num_months)
                /\ monthly_returns' =
                       Tup([k \in 1..num_months |->
                           Normal(monthly_expected_return, monthly_volatility[1],
                                  Stream(rng + k - 1))])
                /\ rng' = rng + num_months
                /\ current_portfolio' = StartBalance(params)
                /\ i' = 0
                /\ branch' = Tup([k \in 1..num_months |-> "none"])
                /\ pc' = "loop"
                /\ UNCHANGED error
    /\ UNCHANGED <<prog, inputs, params, seed, sim, crash_months,
                   all_simulations, all_trailing_returns, all_monthly_returns,
                   base_returns, returns, window, trailing_app, trailing_plan>>

\* One iteration of the month loop, lines 76-92.
PortfolioStep ==
    /\ prog = "app"
    /\ pc = "loop"
    /\ i < LenDf
    /\ \E portfolio_with_investment \in
              {WithInvestment(current_portfolio, df.Monthly_Investment[i + 1])} :
           IF UsesSampledReturn(portfolio_with_investment)
           THEN /\ current_portfolio' =
                       GrowSampled(portfolio_with_investment,
                                   monthly_returns[i + 1])
                /\ branch' = [branch EXCEPT ![i + 1] = "sampled"]
           ELSE /\ current_portfolio' = GrowFlat(portfolio_with_investment)
                /\ branch' = [branch EXCEPT ![i + 1] = "flat"]
    /\ df' = [df EXCEPT !.Portfolio_Value[i + 1] = current_portfolio']
    /\ i' = i + 1
    /\ UNCHANGED <<prog, pc, inputs, params, seed, rng, sim, monthly_returns,
                   crash_months, all_simulations, all_trailing_returns,
                   all_monthly_returns, base_returns, error, returns, window,
                   trailing_app, trailing_plan>>

\* Lines 94-96 and the caller's lines 247-248.
ReturnSimulation ==
    /\ prog = "app"
    /\ pc = "loop"
    /\ i = LenDf
    /\ all_simulations' = Append(all_simulations, df)
    /\ all_trailing_returns' =
           Append(all_trailing_returns,
                  calculate_trailing_return(monthly_returns, AppWindow))
    /\ all_monthly_returns' = Append(all_monthly_returns, monthly_returns)
    /\ sim' = sim + 1
    /\ pc' = "batch"
    /\ UNCHANGED <<prog, inputs, params, seed, rng, df, monthly_returns,
                   crash_months, current_portfolio, i, branch, base_returns,
                   error, returns, window, trailing_app, trailing_plan>>

\* The batch loop is over: figure and statistics, lines 250-364.
FinishGraph ==
    /\ prog = "app"
    /\ pc = "batch"
    /\ sim >= params.num_simulations
    /\ pc' = "done"
    /\ UNCHANGED <<prog, inputs, params, seed, rng, sim, df, monthly_returns,
                   crash_months, current_portfolio, i, branch, all_simulations,
                   all_trailing_returns, all_monthly_returns, base_returns,
                   error, returns, window, trailing_app, trailing_plan>>

AppNext ==
    \/ UpdateGraph
    \/ GenerateSimulation
    \/ PortfolioStep
    \/ ReturnSimulation
    \/ FinishGraph

AppSpec == AppInit /\ [][AppNext]_vars

----------------------------------------------------------------------------
(* plan.py: the parameter block (lines 12-31 and 50), edited by the user.  *)

PlanStartingAges == {24}

\* (monthly_income, monthly_expenses)
PlanCashflows == {<<5000, 3500>>}

\* (annual_return_rate, crash_recovery_months): 0% with the default 12
\* months, and the rate whose monthly equivalent is -50% with 3 months.
PlanReturns == {<<RInt(0), 12>>, <<R(-4095, 4096), 3>>}

\* annual_volatility: 0 and sqrt(3) (50% a month).
PlanVolatilities == {Q3(RInt(0), RInt(0)), Q3(RInt(0), RInt(1))}

\* crash_probability: the default 2%, and 100%.
CrashProbabilities == {R(2, 100), RInt(1)}

PlanParams ==
    {[starting_age |-> a, retirement_age |-> a + y,
      monthly_income |-> cf[1], monthly_expenses |-> cf[2],
      annual_return_rate |-> rr[1], annual_volatility |-> av,
      monthly_volatility |-> monthly_volatility_of(av),
      monthly_expected_return |-> monthly_expected_return_of(rr[1]),
      inflation_rate |-> RInt(0),
      crash_probability |-> cp, crash_return |-> R(-20, 100),
      crash_recovery_months |-> rr[2],
      num_months |-> y * 12,
      num_simulations |-> ns] :
        a \in PlanStartingAges, y \in 1..MaxYears, cf \in PlanCashflows,
        rr \in PlanReturns, av \in PlanVolatilities,
        cp \in CrashProbabilities, ns \in 1..MaxSims}

\* Stream positions a shock may start at: the normal and the uniform draws
\* of every run.
PlanDraws(p) == p.num_simulations * 2 * p.num_months

NoInputs == [n_clicks |-> 0]

\* The state after line 52.
PlanInit ==
    /\ prog = "plan"
    /\ pc = "batch"
    /\ inputs = NoInputs
    /\ params \in PlanParams
    /\ seed \in Seeds(PlanDraws(params))
    /\ RunIdle
    /\ TrailingIdle

----------------------------------------------------------------------------
(* plan.py: the simulation loop, lines 54-106. *)

\* current_portfolio = 50000  # Initial investment
PlanInitialInvestment == 50000

\* min(crash_recovery_months, len(df) - i)
recovery_months_at(p, n, m) == Min(p.crash_recovery_months, n - m)

\* Draws the recovery loop of a crash at month m takes: j = 1 .. recovery - 1.
RecoveryDraws(p, n, m) == Max(0, recovery_months_at(p, n, m) - 1)

\* The recovery draw for offset j of a crash at month m.
RecoveryReturn(p, n, m, j, z) ==
    Normal(RMul(p.monthly_expected_return, R(j, recovery_months_at(p, n, m))),
           RMul(p.monthly_volatility[1], R(3, 2)),
           z)

\* The recovery loop running one offset further: range(1, recovery_months + 1).
CrashOverwrite_long(p, rets, m, first) ==
    LET n == Len(rets)
    IN  Tup([k \in 1..n |->
            LET j == (k - 1) - m
            IN  IF j = 0 THEN p.crash_return
                ELSE IF j >= 1 /\ j < recovery_months_at(p, n, m) + 1 /\ m + j < n
                THEN RecoveryReturn(p, n, m, j, Stream(first + j - 1))
                ELSE rets[k]])

\* The recovery loop starting at offset 0: range(0, recovery_months).
CrashOverwrite_from0(p, rets, m, first) ==
    LET n == Len(rets)
    IN  Tup([k \in 1..n |->
            LET j == (k - 1) - m
            IN  IF j >= 0 /\ j < recovery_months_at(p, n, m) /\ m + j < n
                THEN RecoveryReturn(p, n, m, j, Stream(first + j))
                ELSE rets[k]])

\* Lines 74-86 for a crash at month m (0-based): the series with month m and
\* its recovery months overwritten; the j-th recovery draw is draw
\* first + j - 1 of the stream.
CrashOverwrite(p, rets, m, first) ==
    LET n == Len(rets)
    IN  Tup([k \in 1..n |->
            LET j == (k - 1) - m
            IN  IF j = 0 THEN p.crash_return
                ELSE IF j >= 1 /\ j < recovery_months_at(p, n, m) /\ m + j < n
                THEN RecoveryReturn(p, n, m, j, Stream(first + j - 1))
                ELSE rets[k]])

\* Lines 54-72: the frame, the normal draws and the crash flags of one run.
BeginSimulation ==
    /\ prog = "plan"
    /\ pc = "batch"
    /\ sim < params.num_simulations
    /\ \E n \in {params.num_months} :
        /\ df' = [NewFrame(params, n) EXCEPT !.Portfolio_Value = <<>>]
        /\ monthly_returns' =
               Tup([k \in 1..n |->
                   Normal(params.monthly_expected_return,
                          params.monthly_volatility[1], Stream(rng + k - 1))])
        /\ crash_months' =
               Tup([k \in 1..n |->
                   RLess(Uniform(Stream(rng + n + k - 1)),
                         params.crash_probability)])
        /\ rng' = rng + 2 * n
        /\ branch' = Tup([k \in 1..n |-> "none"])
    /\ base_returns' = monthly_returns'
    /\ i' = 0
    /\ pc' = "crash"
    /\ UNCHANGED <<prog, inputs, params, seed, sim, current_portfolio,
                   all_simulations, all_trailing_returns, all_monthly_returns,
                   error, returns, window, trailing_app, trailing_plan>>

\* One iteration of the crash loop, lines 73-86.
CrashStep ==
    /\ prog = "plan"
    /\ pc = "crash"
    /\ i < Len(monthly_returns)
    /\ IF crash_months[i + 1]
       THEN /\ monthly_returns' = CrashOverwrite(params, monthly_returns, i, rng)
            /\ rng' = rng + RecoveryDraws(params, Len(monthly_returns), i)
       ELSE UNCHANGED <<monthly_returns, rng>>
    /\ i' = i + 1
    /\ UNCHANGED <<prog, pc, inputs, params, seed, sim, df, crash_months,
                   current_portfolio, branch, all_simulations,
                   all_trailing_returns, all_monthly_returns, base_returns,
                   error, returns, window, trailing_app, trailing_plan>>

\* Lines 88-90, once the crash loop is over.
StartPortfolio ==
    /\ prog = "plan"
    /\ pc = "crash"
    /\ i = Len(monthly_returns)
    /\ df' = [df EXCEPT !.Portfolio_Value =
                           Tup([k \in 1..Len(monthly_returns) |-> FxInt(0)])]
    /\ current_portfolio' = FxInt(PlanInitialInvestment)
    /\ i' = 0
    /\ pc' = "loop"
    /\ UNCHANGED <<prog, inputs, params, seed, rng, sim, monthly_returns,
                   crash_months, branch, all_simulations, all_trailing_returns,
                   all_monthly_returns, base_returns, error, returns, window,
                   trailing_app, trailing_plan>>

\* Line 94-95: the first month.
PlanFirstMonth(balance, investment, r) ==
    FxMulRat(FxAdd(balance, FxOfRat(investment)), RAdd(RInt(1), r))

\* Lines 98-99: a later month.
PlanLaterMonth(balance, investment, r) ==
    FxAdd(FxMulRat(balance, RAdd(RInt(1), r)), FxOfRat(investment))

\* One iteration of the month loop, lines 92-100.
PlanPortfolioStep ==
    /\ prog = "plan"
    /\ pc = "loop"
    /\ i < LenDf
    /\ current_portfolio' =
           IF i = 0
           THEN PlanFirstMonth(current_portfolio, df.Monthly_Investment[i + 1],
                               monthly_returns[i + 1])
           ELSE PlanLaterMonth(current_portfolio, df.Monthly_Investment[i + 1],
                               monthly_returns[i + 1])
    /\ df' = [df EXCEPT !.Portfolio_Value[i + 1] = current_portfolio']
    /\ branch' = [branch EXCEPT ![i + 1] = "sampled"]
    /\ i' = i + 1
    /\ UNCHANGED <<prog, pc, inputs, params, seed, rng, sim, monthly_returns,
                   crash_months, all_simulations, all_trailing_returns,
                   all_monthly_returns, base_returns, error, returns, window,
                   trailing_app, trailing_plan>>

\* Lines 102-106.
AppendSimulation ==
    /\ prog = "plan"
    /\ pc = "loop"
    /\ i = LenDf
    /\ all_simulations' = Append(all_simulations, df)
    /\ all_trailing_returns' =
           Append(all_trailing_returns,
                  plan_calculate_trailing_return(monthly_returns, PlanWindow))
    /\ all_monthly_returns' = Append(all_monthly_returns, monthly_returns)
    /\ sim' = sim + 1
    /\ pc' = "batch"
    /\ UNCHANGED <<prog, inputs, params, seed, rng, df, monthly_returns,
                   crash_months, current_portfolio, i, branch, base_returns,
                   error, returns, window, trailing_app, trailing_plan>>

\* The loop is over: the plot, lines 108-205.
ShowPlot ==
    /\ prog = "plan"
    /\ pc = "batch"
    /\ sim >= params.num_simulations
    /\ pc' = "done"
    /\ UNCHANGED <<prog, inputs, params, seed, rng, sim, df, monthly_returns,
                   crash_months, current_portfolio, i, branch, all_simulations,
                   all_trailing_returns, all_monthly_returns, base_returns,
                   error, returns, window, trailing_app, trailing_plan>>

PlanNext ==
    \/ BeginSimulation
    \/ CrashStep
    \/ StartPortfolio
    \/ PlanPortfolioStep
    \/ AppendSimulation
    \/ ShowPlot

PlanSpec == PlanInit /\ [][PlanNext]_vars

----------------------------------------------------------------------------
(* calculate_trailing_return on its own: both files' functions applied to  *)
(* one series and one window.                                              *)

\* Monthly returns of -150%, 0% and 100%.
TrailingReturnValues == {R(-3, 2), RInt(0), RInt(1)}

TrailingInit ==
    /\ prog = "trailing"
    /\ pc = "start"
    /\ inputs = NoInputs
    /\ params = NoParams
    /\ seed = [pos |-> 0, len |-> 0, val |-> 0]
    /\ RunIdle
    /\ returns \in UNION {[1..l -> TrailingReturnValues] : l \in 0..MaxLen}
    /\ window \in 1..MaxWindow
    /\ trailing_app = <<>>
    /\ trailing_plan = <<>>

CalculateTrailingReturn ==
    /\ prog = "trailing"
    /\ pc = "start"
    /\ trailing_app' = calculate_trailing_return(returns, window)
    /\ trailing_plan' = plan_calculate_trailing_return(returns, window)
    /\ pc' = "done"
    /\ UNCHANGED <<prog, inputs, params, seed, rng, sim, df, monthly_returns,
                   crash_months, current_portfolio, i, branch, all_simulations,
                   all_trailing_returns, all_monthly_returns, base_returns,
                   error, returns, window>>

TrailingNext == CalculateTrailingReturn

TrailingSpec == TrailingInit /\ [][TrailingNext]_vars

----------------------------------------------------------------------------
(* Both programs. *)

Init == AppInit \/ PlanInit

Next == AppNext \/ PlanNext

Spec == Init /\ [][Next]_vars

----------------------------------------------------------------------------
(* Properties. *)

\* The months of the run in progress whose Portfolio_Value the loop has
\* written (1-based rows).
Written == IF pc = "loop" THEN 1..i ELSE {}

\* The balance month k starts from: the initial investment for the first
\* month, the previous month's Portfolio_Value for a later one.
PriorBalance(k) ==
    IF k = 1
    THEN (IF prog = "app" THEN <<params.initial_investment>> ELSE <<50000>>)
    ELSE df.Portfolio_Value[k - 1]

\* pre_value = prior_balance + net_contribution[k]
PreValue(k) == FxAdd(PriorBalance(k), FxOfRat(df.Monthly_Investment[k]))

\* C1 (as claimed, for both programs): in every month, first or later, whose
\* pre_value is not negative, portfolio_value = pre_value * (1 + return).
C1_UniformUpdateRule ==
    \A k \in Written :
        FxGe0(PreValue(k)) =>
            df.Portfolio_Value[k] =
                FxMulRat(PreValue(k), RAdd(RInt(1), monthly_returns[k]))

\* C2: in generate_simulation a month whose pre_value is negative grows by
\* exactly 1 + 0.05/12 = 241/240 whatever its return, and takes the flat
\* line; a month whose pre_value is zero or more grows by its sampled return,
\* and takes the sampled line.
C2_NegativeBalanceGuard ==
    prog = "app" =>
        \A k \in Written :
            IF FxIsNeg(PreValue(k))
            THEN /\ df.Portfolio_Value[k] = FxMulRat(PreValue(k), R(241, 240))
                 /\ branch[k] = "flat"
            ELSE /\ df.Portfolio_Value[k] =
                        FxMulRat(PreValue(k), RAdd(RInt(1), monthly_returns[k]))
                 /\ branch[k] = "sampled"

\* C2 happens: a month with a negative pre_value whose sampled return is not
\* the flat rate, and a month with a pre_value of exactly zero.
C2_Witness ==
    /\ prog = "app"
    /\ \E k \in Written :
          /\ FxIsNeg(PreValue(k))
          /\ monthly_returns[k] # R(1, 240)
    /\ \E k \in Written :
          /\ PreValue(k) = <<0>>
          /\ monthly_returns[k] # RInt(0)

\* C3: with retirement_age > starting_age, a run of generate_simulation has
\* (retirement_age - starting_age) * 12 rows in every column, all of them
\* written by the loop when it ends, and as many returns; the path, the
\* returns and the trailing returns it hands back have that length too.
C3_PathLength ==
    (prog = "app" /\ pc \in {"loop", "batch", "done"} /\ params # NoParams
        /\ params.retirement_age > params.starting_age) =>
        LET months == (params.retirement_age - params.starting_age) * 12
        IN  /\ pc = "loop" =>
                /\ Len(df.Portfolio_Value) = months
                /\ Len(df.Age) = months
                /\ Len(df.Monthly_Investment) = months
                /\ Len(monthly_returns) = months
                /\ i = months => \A k \in 1..months : branch[k] # "none"
            /\ \A s \in 1..Len(all_simulations) :
                /\ Len(all_simulations[s].Portfolio_Value) = months
                /\ Len(all_simulations[s].Age) = months
                /\ Len(all_monthly_returns[s]) = months
                /\ Len(all_trailing_returns[s]) = months

\* C3 happens: a run has ended and handed back its path.
C3_Witness ==
    /\ prog = "app"
    /\ pc = "batch"
    /\ Len(all_simulations) >= 1
    /\ Len(all_simulations[1].Portfolio_Value) = 12

\* The trailing-return entry of month idx (0-based) of a result.
Entry(result, idx) == result[idx + 1]

\* C4 (as claimed, for both files): the entry of month idx is the undefined
\* sentinel when idx < window and a defined number when idx >= window.
C4_SentinelBelowWindow ==
    pc = "done" /\ prog = "trailing" =>
        \A idx \in 0..(Len(returns) - 1) :
            /\ (Entry(trailing_app, idx) = NaN) <=> (idx < window)
            /\ (Entry(trailing_plan, idx) = NaN) <=> (idx < window)

\* The product of (1 + return[k]) for k in [idx - window, idx).
RECURSIVE GrowthOver(_, _)
GrowthOver(from, to) ==
    IF from >= to THEN RInt(1)
    ELSE RMul(RAdd(RInt(1), returns[from + 1]), GrowthOver(from + 1, to))

CrashProcessed ==
    IF prog # "plan" THEN {}
    ELSE IF pc = "crash" THEN 1..i
    ELSE IF pc = "loop" THEN 1..Len(monthly_returns)
    ELSE {}

\* C6: a crash month the crash loop has processed keeps crash_return as its
\* return, also inside the recovery window of an earlier crash; with
\* crash_probability = 1 every month is a crash month.
C6_CrashReturnStands ==
    /\ \A k \in CrashProcessed :
          crash_months[k] => monthly_returns[k] = params.crash_return
    /\ (prog = "plan" /\ pc \in {"crash", "loop"}
          /\ params.crash_probability = RInt(1)) =>
          \A k \in 1..Len(crash_months) : crash_months[k]

\* C6 happens: the crash loop is over and a crash month lies in the recovery
\* window of an earlier crash, whose recovery draw differed from crash_return.
C6_Witness ==
    /\ prog = "plan"
    /\ pc = "loop"
    /\ \E k1, k2 \in 1..Len(crash_months) :
          /\ crash_months[k1]
          /\ crash_months[k2]
          /\ k1 < k2
          /\ k2 - k1 < params.crash_recovery_months
          /\ RecoveryReturn(params, Len(crash_months), k1 - 1, k2 - k1, 0)
                # params.crash_return

\* A volatility x + y*sqrt(3) with one part zero and the other negative.
VolatilityNegative(v) ==
    \/ v[1] = RInt(0) /\ v[2][1] < 0
    \/ v[2] = RInt(0) /\ v[1][1] < 0

\* The parameters section 7 calls invalid.
Invalid(p) ==
    \/ p.retirement_age <= p.starting_age
    \/ VolatilityNegative(p.annual_volatility)

C8_ZeroVolatilityDeterminism ==
    (prog = "app" /\ params # NoParams
        /\ params.annual_volatility = Q3(RInt(0), RInt(0))) =>
        LET Fixed(rets) ==
                \A k \in 1..Len(rets) :
                    /\ RPow(RAdd(RInt(1), rets[k]), 12) =
                           RAdd(RInt(1), params.annual_return_rate)
                    /\ ~RLess(RAdd(RInt(1), rets[k]), RInt(0))
        IN  /\ Fixed(monthly_returns)
            /\ \A s \in 1..Len(all_simulations) :
                  /\ Fixed(all_monthly_returns[s])
                  /\ all_simulations[s].Portfolio_Value =
                         all_simulations[1].Portfolio_Value
                  /\ \A k \in Written :
                         df.Portfolio_Value[k] =
                             all_simulations[s].Portfolio_Value[k]

\* C8 happens: two zero-volatility runs have ended, the second one's draws
\* taken from a part of the stream that is not at the median.
C8_Witness ==
    /\ prog = "app"
    /\ params # NoParams
    /\ params.annual_volatility = Q3(RInt(0), RInt(0))
    /\ Len(all_simulations) >= 2
    /\ seed.len > 0
    /\ seed.pos >= Len(all_monthly_returns[1])
    /\ seed.pos < rng
    /\ all_simulations[2].Portfolio_Value[1] # <<0>>

\* C9 (as claimed): the runs of a batch can be reordered without changing
\* any run's result, so the run that came first and the run that came s-th
\* have the same result.
C9_RunsReorderable ==
    \A s \in 1..Len(all_simulations) :
        /\ all_simulations[s] = all_simulations[1]
        /\ all_trailing_returns[s] = all_trailing_returns[1]

\* C9 (amended): the runs share the process-wide random generator and
\* nothing else.  A run starts its draws where the run before stopped, and
\* two runs that drew the same return series have the same path and the same
\* trailing returns.
C9_OnlyGeneratorShared ==
    /\ \A s1, s2 \in 1..Len(all_simulations) :
          all_monthly_returns[s1] = all_monthly_returns[s2] =>
              /\ all_simulations[s1] = all_simulations[s2]
              /\ all_trailing_returns[s1] = all_trailing_returns[s2]
    /\ (prog = "app" /\ pc = "batch") =>
          rng = Len(all_simulations)
                    * (params.retirement_age - params.starting_age) * 12
    /\ (prog = "plan" /\ pc = "batch") =>
          rng >= Len(all_simulations) * 2 * params.num_months

\* C9 happens: two runs drew the same series, not all zero, from different
\* parts of the stream, and grew a balance from it.
C9_Witness ==
    /\ Len(all_simulations) >= 2
    /\ all_monthly_returns[1] = all_monthly_returns[2]
    /\ \E k \in 1..Len(all_monthly_returns[1]) :
          all_monthly_returns[1][k] # RInt(0)
    /\ all_simulations[1].Portfolio_Value[1] # all_simulations[1].Portfolio_Value[2]
    /\ rng > 0

\* C10 (as claimed): the trailing series is as long as the return series and
\* its sentinel entries are the first window - 1: the entry at index
\* window - 1 and every later one is defined.
C10_FirstWindowMinusOne ==
    pc = "done" /\ prog = "trailing" =>
        /\ Len(trailing_app) = Len(returns)
        /\ Len(trailing_plan) = Len(returns)
        /\ \A idx \in 0..(Len(returns) - 1) :
              /\ (Entry(trailing_app, idx) = NaN) <=> (idx < window - 1)
              /\ (Entry(trailing_plan, idx) = NaN) <=> (idx < window - 1)

\* C10 (amended): the trailing series is as long as the return series; the
\* first window entries, index window - 1 included, hold the sentinel; the
\* entry at an index idx >= window is computed from the months
\* idx - window .. idx - 1 and is the sentinel again exactly when its base
\* (the window's growth product in app.py, 1 + that product in plan.py) is
\* negative and 12/window is not a whole number.
C10_FirstWindowEntries ==
    pc = "done" /\ prog = "trailing" =>
        /\ Len(trailing_app) = Len(returns)
        /\ Len(trailing_plan) = Len(returns)
        /\ \A idx \in 0..(Len(returns) - 1) :
              IF idx < window
              THEN /\ Entry(trailing_app, idx) = NaN
                   /\ Entry(trailing_plan, idx) = NaN
              ELSE LET growth == GrowthOver(idx - window, idx)
                       fractional == 12 % window # 0
                   IN  /\ (Entry(trailing_app, idx) = NaN) <=>
                              (fractional /\ RLess(growth, RInt(0)))
                       /\ (Entry(trailing_plan, idx) = NaN) <=>
                              (fractional
                                  /\ RLess(RAdd(RInt(1), growth), RInt(0)))
                       /\ ~RLess(growth, RInt(0)) =>
                              Entry(trailing_app, idx).base = growth

\* C10 happens: a series longer than its window, with the sentinel at index
\* window - 1 and a number at index window.
C10_Witness ==
    /\ prog = "trailing"
    /\ pc = "done"
    /\ window >= 2
    /\ Len(returns) > window
    /\ Entry(trailing_app, window - 1) = NaN
    /\ Entry(trailing_app, window) # NaN
    /\ Entry(trailing_plan, window) # NaN

\* The months after month m (0-based) that a crash at m overwrites: offsets
\* 1 .. crash_recovery_months - 1, as far as the series goes.
RecoveryOffsets(m) ==
    1..Min(params.crash_recovery_months - 1, Len(monthly_returns) - 1 - m)

\* C11 (as claimed): when the crash loop has just processed a crash at month
\* m, every month m + j it overwrote holds a normal draw of mean
\* monthly_expected_return * (j / crash_recovery_months), the configured
\* count also for a crash near the end of the series, and of standard
\* deviation 1.5 * monthly_volatility.
C11_RecoveryMeanConfigured ==
    (prog = "plan" /\ pc = "crash" /\ i >= 1 /\ crash_months[i]) =>
        LET m == i - 1
            first == rng - Cardinality(RecoveryOffsets(m))
        IN  \A j \in RecoveryOffsets(m) :
                monthly_returns[m + j + 1] =
                    RAdd(RMul(params.monthly_expected_return,
                              R(j, params.crash_recovery_months)),
                         RMul(RMul(R(3, 2), params.monthly_volatility[1]),
                              RInt(Stream(first + j - 1))))

\* The months (0-based) a crash at month m may overwrite: m and the
\* crash_recovery_months - 1 months after it, inside the series.
CrashWindow(m) ==
    m..Min(m + params.crash_recovery_months - 1, params.num_months - 1)

\* The state part of C12: the series keeps its length, and a month's return
\* differs from its base normal draw only inside the window of a crash month
\* the crash loop has processed.
C12_OnlyCrashWindowsDiffer ==
    (prog = "plan" /\ pc \in {"crash", "loop"}) =>
        /\ Len(monthly_returns) = params.num_months
        /\ Len(base_returns) = params.num_months
        /\ DOMAIN monthly_returns = 1..params.num_months
        /\ \A k \in 1..params.num_months :
              monthly_returns[k] # base_returns[k] =>
                  \E m \in 0..(k - 1) :
                      /\ m + 1 \in CrashProcessed
                      /\ crash_months[m + 1]
                      /\ (k - 1) \in CrashWindow(m)

\* The step part of C12: an iteration of the crash loop at month i leaves
\* every month outside the window of a crash at i as it was, and all months
\* when i is not a crash month.
C12_CrashStepFrame ==
    (prog = "plan" /\ pc = "crash" /\ pc' = "crash") =>
        /\ Len(monthly_returns') = Len(monthly_returns)
        /\ \A k \in 1..Len(monthly_returns) :
              (~crash_months[i + 1] \/ (k - 1) \notin CrashWindow(i)) =>
                  monthly_returns'[k] = monthly_returns[k]

\* C12: crash injection changes only crash windows.  A crash at month i
\* overwrites month i and the months up to min(i + crash_recovery_months - 1,
\* num_months - 1) and nothing else; after generation a return differs from
\* its base draw only in a crash month or in the crash_recovery_months - 1
\* months after one; no index outside the series is written and the series
\* keeps its length.
C12_CrashFrameEffect ==
    /\ []C12_OnlyCrashWindowsDiffer
    /\ [][C12_CrashStepFrame]_vars

\* C12 happens: generation is over with a crash month whose window the end
\* of the series cuts short, a recovery month that differs from its base
\* draw, and a month outside every crash window.
C12_Witness ==
    /\ prog = "plan"
    /\ pc = "loop"
    /\ \E m \in 0..(params.num_months - 1) :
          /\ crash_months[m + 1]
          /\ m + params.crash_recovery_months - 1 > params.num_months - 1
          /\ m + 1 <= params.num_months - 1
          /\ monthly_returns[m + 2] # base_returns[m + 2]
    /\ \E k \in 1..params.num_months :
          /\ \A m \in 0..(params.num_months - 1) :
                crash_months[m + 1] => (k - 1) \notin CrashWindow(m)
          /\ monthly_returns[k] = base_returns[k]
          /\ monthly_returns[k] # params.crash_return

\* Month j (1-based) of the run in progress ended below zero and no month
\* after it up to month k had a positive Monthly_Investment.
NegativeSince(j, k) ==
    /\ FxIsNeg(df.Portfolio_Value[j])
    /\ \A m \in (j + 1)..k : ~RLess(RInt(0), df.Monthly_Investment[m])

\* C13: in generate_simulation a negative balance is absorbing under
\* non-positive contributions.  Once a month has ended below zero, every
\* later month reached with no positive contribution in between takes the
\* flat-interest line, whatever its return, and ends below the month before
\* it, which is itself below zero.
C13_NegativeBalanceAbsorbing ==
    prog = "app" =>
        \A k \in Written :
            (\E j \in 1..(k - 1) : NegativeSince(j, k)) =>
                /\ branch[k] = "flat"
                /\ FxIsNeg(df.Portfolio_Value[k - 1])
                /\ FxLess(df.Portfolio_Value[k], df.Portfolio_Value[k - 1])

\* C13 happens: a sampled return below -100% turned a positive balance
\* negative, the contributions after it are zero, and two later months, the
\* first with a return that is not the flat rate, have been written.
C13_Witness ==
    /\ prog = "app"
    /\ pc = "loop"
    /\ i >= 3
    /\ branch[1] = "sampled"
    /\ NegativeSince(1, 3)
    /\ df.Monthly_Investment[2] = RInt(0)
    /\ monthly_returns[2] # R(1, 240)
    /\ RLess(monthly_returns[2], RInt(-1))

====
